---- MODULE Spec2Model ----
(***************************************************************************)
(* Model of the disk-image lifecycle program in src/src/main.rs:           *)
(* main runs allocate -> format -> mount -> transfer -> unmount on one     *)
(* image file and one mount directory.  Every OS call and the formatter    *)
(* subprocess may succeed or fail; the failing call is an input of the     *)
(* action that models the function containing it.                          *)
(*                                                                         *)
(* The specifications share the variables:                                 *)
(*   Spec       main, run up to MaxRuns times over the same file system;   *)
(*   SpecLive   one run of main under weak fairness of its steps;          *)
(*   SpecAlloc  create_fully_allocated_file called directly, repeatedly,   *)
(*              with every size in 0..MaxSize on every prior file state;   *)
(*   SpecCopy   copy_file_to_mount called directly on any destination;     *)
(*   SpecMount  mount_virtual_disk and unmount_virtual_disk called         *)
(*              directly in any order.                                     *)
(***************************************************************************)
EXTENDS Integers, Sequences, FiniteSets, TLC

\* ---------------------------------------------------------------- bounds
\* Largest size passed to create_fully_allocated_file.  Sizes are far below
\* 2^63, where the code's `size as i64` keeps the value.
MaxSize == 2
\* Length of the copy buffer.  The code allocates 4096 bytes; the model is
\* parametric in the length and is checked for small ones.
BufLen == 2
\* Number of times main is run over the same image and mount directory.
MaxRuns == 2
\* Number of successive direct calls of the allocator in SpecAlloc.
MaxCalls == 2
\* Number of successive direct calls of mount and unmount in SpecMount.
MaxMountCalls == 4

\* Byte values.  1 stands for any non-zero byte.
Byte == {0, 1}

\* ------------------------------------------------------------------ files
\* A path either names no file or a regular file with a byte sequence.
NoFile == [exists |-> FALSE, data |-> <<>>]
MkFile(d) == [exists |-> TRUE, data |-> d]

Zeros(n) == [i \in 1..n |-> 0]
Ones(n) == [i \in 1..n |-> 1]

\* n bytes that alternate, starting with 1 - b.
Alternating(n, b) == [i \in 1..n |-> (i + b) % 2]

Max(a, b) == IF a >= b THEN a ELSE b
Min(a, b) == IF a <= b THEN a ELSE b

\* All byte sequences of length at most n.
SeqsUpTo(n) == UNION {[1..k -> Byte] : k \in 0..n}

\* All states of a path holding at most n bytes.
FilesUpTo(n) == {NoFile} \cup {MkFile(d) : d \in SeqsUpTo(n)}

\* ftruncate(fd, len), len >= 0: cut the file at len or extend it with zeros.
Ftruncate(data, len) ==
    IF len <= Len(data) THEN SubSeq(data, 1, len)
    ELSE data \o Zeros(len - Len(data))

\* Write `bytes` at file offset `off` (0-based), as lseek(off) + write do:
\* a hole between the old end and `off` reads as zeros.
WriteAt(data, off, bytes) ==
    LET end == off + Len(bytes)
        newLen == Max(Len(data), end)
    IN  [i \in 1..newLen |->
            IF i > off /\ i <= end THEN bytes[i - off]
            ELSE IF i <= Len(data) THEN data[i]
            ELSE 0]

\* The states of a file whose bytes were overwritten in place.
Rewritten(file) == {MkFile(d) : d \in [1..Len(file.data) -> Byte]}

\* OpenOptions::new().write(true).create(true).open(path): the file is
\* created empty when absent and is left as it is when present.
OpenCreate(file) == IF file.exists THEN file ELSE MkFile(<<>>)

\* ------------------------------------------------------------- functions
\* The call of create_fully_allocated_file that fails, if any.
AllocFails == {"none", "open", "ftruncate", "lseek", "write", "close"}

\* The profile the program was built with.
Builds == {"debug", "release"}

\* Mutant: seeks to `size` instead of `size - 1` before writing the byte.
create_fully_allocated_file_SeekSize(file, size, fail, profile) ==
    LET opened == OpenCreate(file)
        truncated == MkFile(Ftruncate(opened.data, size))
        written == MkFile(WriteAt(truncated.data, size, <<0>>))
    IN  IF fail = "open" THEN [file |-> file, res |-> "open_err", closes |-> 0]
        ELSE IF fail = "ftruncate" THEN [file |-> opened, res |-> "ftruncate_err", closes |-> 1]
        ELSE IF fail = "lseek" THEN [file |-> truncated, res |-> "lseek_err", closes |-> 1]
        ELSE IF fail = "write" THEN [file |-> truncated, res |-> "write_err", closes |-> 1]
        ELSE IF profile = "debug"
             THEN [file |-> written, res |-> "abort", closes |-> 1]
        ELSE IF fail = "close" THEN [file |-> written, res |-> "close_err", closes |-> 2]
        ELSE [file |-> written, res |-> "ok", closes |-> 2]

\* Mutant: no ftruncate; the byte is written `size - 1` past the current end,
\* so every call grows the file by `size`.
create_fully_allocated_file_Append(file, size, fail, profile) ==
    LET opened == OpenCreate(file)
        written == MkFile(WriteAt(opened.data, Len(opened.data) + size - 1, <<0>>))
    IN  IF fail = "open" THEN [file |-> file, res |-> "open_err", closes |-> 0]
        ELSE IF fail = "ftruncate" THEN [file |-> opened, res |-> "ftruncate_err", closes |-> 1]
        ELSE IF fail = "lseek" \/ size - 1 < 0
             THEN [file |-> opened, res |-> "lseek_err", closes |-> 1]
        ELSE IF fail = "write" THEN [file |-> opened, res |-> "write_err", closes |-> 1]
        ELSE IF profile = "debug"
             THEN [file |-> written, res |-> "abort", closes |-> 1]
        ELSE IF fail = "close" THEN [file |-> written, res |-> "close_err", closes |-> 2]
        ELSE [file |-> written, res |-> "ok", closes |-> 2]

\* create_fully_allocated_file(path, size): open-or-create, ftruncate to
\* size, lseek to size - 1, write one zero byte, close.  Each call returns
\* early through `?` when it fails; lseek to a negative offset (size = 0)
\* always fails with EINVAL.  The result is the file left at the path, the
\* function's result, and the number of close calls made on the descriptor.
\* close(fd) on line 37 closes a descriptor that `file` still owns, so the
\* drop of `file` that follows it, whether close returned Ok or Err, acts on
\* a closed descriptor.  What happens then depends on the build: a release
\* build closes again (EBADF, ignored) and the function returns; a debug
\* build checks the descriptor first and aborts the process (SIGABRT), so
\* the call never returns.  On the early returns the drop is the one close.
create_fully_allocated_file(file, size, fail, profile) ==
    LET opened == OpenCreate(file)
        truncated == MkFile(Ftruncate(opened.data, size))
        written == MkFile(WriteAt(truncated.data, size - 1, <<0>>))
    IN  IF fail = "open" THEN [file |-> file, res |-> "open_err", closes |-> 0]
        ELSE IF fail = "ftruncate" THEN [file |-> opened, res |-> "ftruncate_err", closes |-> 1]
        ELSE IF fail = "lseek" \/ size - 1 < 0
             THEN [file |-> truncated, res |-> "lseek_err", closes |-> 1]
        ELSE IF fail = "write" THEN [file |-> truncated, res |-> "write_err", closes |-> 1]
        ELSE IF profile = "debug"
             THEN [file |-> written, res |-> "abort", closes |-> 1]
        ELSE IF fail = "close" THEN [file |-> written, res |-> "close_err", closes |-> 2]
        ELSE [file |-> written, res |-> "ok", closes |-> 2]

\* How the mkfs.ext4 subprocess ends.
FormatOutcomes == {"launch_err", "exit_nonzero", "exit_zero"}

\* format_virtual_disk(path): Ok only when the subprocess ran and exited 0.
format_virtual_disk(outcome) ==
    IF outcome = "launch_err" THEN "launch_err"
    ELSE IF outcome = "exit_nonzero" THEN "tool_failed"
    ELSE "ok"

\* Mutant: a failed attach removes the directory the call has created.
mount_virtual_disk_Rollback(exists, depth, mkdirFails, attachFails) ==
    IF ~exists /\ mkdirFails
    THEN [res |-> "mkdir_err", exists |-> exists, depth |-> depth,
          mkdir |-> TRUE, attach |-> FALSE]
    ELSE IF attachFails
    THEN [res |-> "attach_err", exists |-> exists, depth |-> depth,
          mkdir |-> ~exists, attach |-> TRUE]
    ELSE [res |-> "ok", exists |-> TRUE, depth |-> depth + 1,
          mkdir |-> ~exists, attach |-> TRUE]

\* Mutant: the error of create_dir_all is dropped and the attach is made
\* without the directory.
mount_virtual_disk_MkdirErrDropped(exists, depth, mkdirFails, attachFails) ==
    IF attachFails
    THEN [res |-> "attach_err", exists |-> exists \/ ~mkdirFails,
          depth |-> depth, mkdir |-> ~exists, attach |-> TRUE]
    ELSE [res |-> "ok", exists |-> exists \/ ~mkdirFails,
          depth |-> depth + 1, mkdir |-> ~exists, attach |-> TRUE]

\* mount_virtual_disk(): create the mount directory when it does not exist,
\* then attach.  depth is the number of mounts stacked on the directory;
\* mkdir and attach tell whether create_dir_all and mount were called.
mount_virtual_disk(exists, depth, mkdirFails, attachFails) ==
    IF ~exists /\ mkdirFails
    THEN [res |-> "mkdir_err", exists |-> exists, depth |-> depth,
          mkdir |-> TRUE, attach |-> FALSE]
    ELSE IF attachFails
    THEN [res |-> "attach_err", exists |-> TRUE, depth |-> depth,
          mkdir |-> ~exists, attach |-> TRUE]
    ELSE [res |-> "ok", exists |-> TRUE, depth |-> depth + 1,
          mkdir |-> ~exists, attach |-> TRUE]

\* unmount_virtual_disk(): one umount2 without flags.  The kernel rejects it
\* when nothing is mounted on the directory.
unmount_virtual_disk(depth, fails) ==
    IF depth = 0 \/ fails
    THEN [res |-> "umount_err", depth |-> depth]
    ELSE [res |-> "ok", depth |-> depth - 1]

\* destination.write_all(bytes) at file offset off: all of bytes is written,
\* or an error is returned after the first k < Len(bytes) of them
\* (k = Len(bytes) means no failure).
write_all(data, off, bytes, k) ==
    WriteAt(data, off, SubSeq(bytes, 1, k))

\* ------------------------------------------------------------------ state
VARIABLES
    pc,          \* position of main: the step to attempt next, or "exit"
    result,      \* "running", or what main returned: "Ok" or "Err"
    image,       \* the file at IMAGE_PATH
    dirExists,   \* whether the directory MOUNT_POINT exists
    mountDepth,  \* number of mounts attached at MOUNT_POINT
    src,         \* the source file of the transfer
    dst,         \* file.txt inside the image's filesystem
    diskSize,    \* the size main passes to the allocator
    build,       \* the profile the running binary was built with
    pos,         \* copy loop: bytes read from the source so far
    wpos,        \* copy loop: write offset of the destination
    buf,         \* copy loop: the chunk read and not yet written
    log,         \* history: the steps attempted in this run, in order
    outcome,     \* history: the result of each step of this run, or "none"
    reported,    \* history: steps whose error main printed with eprintln
    startDepth,  \* history: mountDepth when this run started
    startDir,    \* history: dirExists when this run started
    runs,        \* number of the current run of main
    calls        \* SpecAlloc, SpecMount: the direct calls made so far

vars == <<pc, result, image, dirExists, mountDepth, src, dst, diskSize, build,
          pos, wpos, buf, log, outcome, reported, startDepth, startDir,
          runs, calls>>

Steps == {"allocate", "format", "mount", "transfer", "unmount"}
StepOrder == <<"allocate", "format", "mount", "transfer", "unmount">>
NoOutcome == [s \in Steps |-> "none"]

isMounted == mountDepth > 0
Failed(s) == outcome[s] \notin {"none", "ok"}
Attempted(s) == \E i \in 1..Len(log) : log[i] = s

\* Exit status of the process: 1 when main returns Err, 101 when the main
\* thread panics, 134 when the process is killed by SIGABRT.
ExitStatus ==
    IF result = "Err" THEN 1
    ELSE IF result = "Panic" THEN 101
    ELSE IF result = "Abort" THEN 134
    ELSE 0

\* ----------------------------------------------------- main: control flow
\* What main does with the result of each step: where it goes next, what it
\* returns, and whether it prints the error itself.  After every step but a
\* failed allocate or format main prints a line with println! or eprintln!;
\* these macros panic when the line cannot be written (printFails), which
\* ends the process where it stands.
Continue(next) == [pc |-> next, result |-> "running", report |-> FALSE]
ReturnErr(rep) == [pc |-> "exit", result |-> "Err", report |-> rep]
Panic == [pc |-> "exit", result |-> "Panic", report |-> FALSE]
Abort == [pc |-> "exit", result |-> "Abort", report |-> FALSE]

\* Mutant: the format step is skipped.
AfterAllocate_SkipsFormat(res, printFails) ==
    IF res = "abort" THEN Abort
    ELSE IF res # "ok" THEN ReturnErr(FALSE)
    ELSE IF printFails THEN Panic
    ELSE Continue("mount")

\* create_fully_allocated_file(IMAGE_PATH, DISK_SIZE)?; println!.  The call
\* does not return when the process was aborted inside it.
AfterAllocate(res, printFails) ==
    IF res = "abort" THEN Abort
    ELSE IF res # "ok" THEN ReturnErr(FALSE)
    ELSE IF printFails THEN Panic
    ELSE Continue("format")

\* Mutant: the result of format is dropped instead of propagated with `?`.
AfterFormat_IgnoresErr(res, printFails) ==
    IF printFails THEN Panic ELSE Continue("mount")

\* format_virtual_disk(IMAGE_PATH)?; println!.
AfterFormat(res, printFails) ==
    IF res # "ok" THEN ReturnErr(FALSE)
    ELSE IF printFails THEN Panic
    ELSE Continue("mount")

\* Mutant: a mount error is printed and main goes on to the transfer.
AfterMount_IgnoresErr(res, printFails) ==
    IF printFails THEN Panic
    ELSE IF res = "ok" THEN Continue("transfer")
    ELSE [pc |-> "transfer", result |-> "running", report |-> TRUE]

\* Mutant: a mount error is printed and main goes to the unmount as cleanup.
AfterMount_ErrUnmounts(res, printFails) ==
    IF printFails THEN Panic
    ELSE IF res = "ok" THEN Continue("transfer")
    ELSE [pc |-> "unmount", result |-> "running", report |-> TRUE]

\* match mount_virtual_disk(): Ok is printed with println!; Err is printed
\* with eprintln! and main returns Err.
AfterMount(res, printFails) ==
    IF printFails THEN Panic
    ELSE IF res = "ok" THEN Continue("transfer")
    ELSE ReturnErr(TRUE)

\* match copy_file_to_mount(..): Ok is printed with println!, Err with
\* eprintln!; main goes on to the unmount either way.
AfterTransfer(res, printFails) ==
    IF printFails THEN Panic
    ELSE [pc |-> "unmount", result |-> "running", report |-> res # "ok"]

\* match unmount_virtual_disk(): Ok is printed with println!, Err with
\* eprintln!; main returns Ok(()).
AfterUnmount(res, printFails) ==
    IF printFails THEN Panic
    ELSE [pc |-> "exit", result |-> "Ok", report |-> res # "ok"]

\* A step is attempted / has returned res and main acts on it as `a` says.
Begin(step) == log' = Append(log, step)
Finish(step, res, a) ==
    /\ pc' = a.pc
    /\ result' = a.result
    /\ outcome' = [outcome EXCEPT ![step] = res]
    /\ reported' = IF a.report THEN reported \cup {step} ELSE reported

\* The locals of copy_file_to_mount outside a call of it.
NoCopy == pos = 0 /\ wpos = 0 /\ buf = <<>>

\* copy_file_to_mount returns res to main.
CopyReturn(res) ==
    /\ \E printFails \in BOOLEAN :
          Finish("transfer", res, AfterTransfer(res, printFails))
    /\ pos' = 0
    /\ wpos' = 0
    /\ buf' = <<>>

\* ---------------------------------------------------------------- actions
\* main, step 1: create_fully_allocated_file(IMAGE_PATH, DISK_SIZE).
Allocate ==
    /\ pc = "allocate"
    /\ \E fail \in AllocFails, printFails \in BOOLEAN :
        LET r == create_fully_allocated_file(image, diskSize, fail, build)
        IN  /\ image' = r.file
            /\ Begin("allocate")
            /\ Finish("allocate", r.res, AfterAllocate(r.res, printFails))
    /\ UNCHANGED <<dirExists, mountDepth, src, dst, diskSize, build, pos, wpos, buf,
                   startDepth, startDir, runs, calls>>

\* main, step 2: format_virtual_disk(IMAGE_PATH).  When mkfs.ext4 was
\* launched it writes a filesystem into the image: the file keeps its length
\* and its bytes are whatever mkfs wrote (all of it when it exits with 0, any
\* part of it when it fails).  A successful mkfs leaves a new, empty
\* filesystem; what a filesystem that is mounted at that moment shows
\* afterwards is undefined: the new one or the old one.  A mkfs that fails
\* may have failed before it wrote anything, which leaves the old filesystem
\* and file.txt in it, or after it wrote, which leaves file.txt gone.
Format ==
    /\ pc = "format"
    /\ \E o \in FormatOutcomes, printFails \in BOOLEAN :
        LET res == format_virtual_disk(o)
        IN  /\ image' \in (IF res = "launch_err" THEN {image}
                           ELSE Rewritten(image))
            /\ dst' \in (IF res = "launch_err" THEN {dst}
                         ELSE IF res = "tool_failed" \/ isMounted
                         THEN {NoFile, dst}
                         ELSE {NoFile})
            /\ Begin("format")
            /\ Finish("format", res, AfterFormat(res, printFails))
    /\ UNCHANGED <<dirExists, mountDepth, src, diskSize, build, pos, wpos, buf,
                   startDepth, startDir, runs, calls>>

\* main, step 3: mount_virtual_disk().
Mount ==
    /\ pc = "mount"
    /\ \E mkdirFails \in BOOLEAN, attachFails \in BOOLEAN, printFails \in BOOLEAN :
        LET r == mount_virtual_disk(dirExists, mountDepth, mkdirFails, attachFails)
        IN  /\ dirExists' = r.exists
            /\ mountDepth' = r.depth
            /\ Begin("mount")
            /\ Finish("mount", r.res, AfterMount(r.res, printFails))
    /\ UNCHANGED <<image, src, dst, diskSize, build, pos, wpos, buf, startDepth, startDir, runs,
                   calls>>

\* What the two opens of copy_file_to_mount can return.  File::open of the
\* source returns the error of open(2) as it is: for a path that names no
\* file that is NotFound (ENOENT), NotADirectory (ENOTDIR, a component of the
\* path is a regular file) or another error such as a refused permission; a
\* file that is there may be refused as well.  The destination is opened only
\* when the source was.
OpenOutcomes(source) ==
    IF source.exists THEN {"ok", "src_open_err", "dst_open_err"}
    ELSE {"NotFound", "NotADirectory", "src_open_err"}

\* main, step 4, copy_file_to_mount up to its loop: open the source, then
\* open the destination with write + create (it is not truncated).
CopyOpen ==
    /\ pc = "transfer"
    /\ Begin("transfer")
    /\ \E o \in OpenOutcomes(src) :
        IF o # "ok"
        THEN CopyReturn(o) /\ dst' = dst
        ELSE /\ dst' = OpenCreate(dst)
             /\ pc' = "copy_read"
             /\ pos' = 0
             /\ wpos' = 0
             /\ buf' = <<>>
             /\ UNCHANGED <<result, outcome, reported>>
    /\ UNCHANGED <<image, dirExists, mountDepth, src, diskSize, build, startDepth, startDir,
                   runs, calls>>

\* The loop's source.read(&mut buffer): an error, 0 at the end of the
\* source (the loop breaks and the function returns Ok), or between 1 and
\* BufLen of the remaining bytes.
CopyRead ==
    /\ pc = "copy_read"
    /\ LET rem == Len(src.data) - pos
       IN  \/ CopyReturn("read_err")
           \/ /\ rem = 0
              /\ CopyReturn("ok")
           \/ \E n \in 1..Min(BufLen, rem) :
                /\ buf' = SubSeq(src.data, pos + 1, pos + n)
                /\ pos' = pos + n
                /\ pc' = "copy_write"
                /\ UNCHANGED <<wpos, result, outcome, reported>>
    /\ UNCHANGED <<image, dirExists, mountDepth, src, dst, diskSize, build, log,
                   startDepth, startDir, runs, calls>>

\* The loop's destination.write_all(&buffer[..n]).
CopyWrite ==
    /\ pc = "copy_write"
    /\ \E k \in 0..Len(buf) :
        /\ dst' = MkFile(write_all(dst.data, wpos, buf, k))
        /\ IF k = Len(buf)
           THEN /\ wpos' = wpos + k
                /\ buf' = <<>>
                /\ pc' = "copy_read"
                /\ UNCHANGED <<pos, result, outcome, reported>>
           ELSE CopyReturn("write_err")
    /\ UNCHANGED <<image, dirExists, mountDepth, src, diskSize, build, log,
                   startDepth, startDir, runs, calls>>

\* main, step 5: unmount_virtual_disk(), then Ok(()).
Unmount ==
    /\ pc = "unmount"
    /\ \E fails \in BOOLEAN, printFails \in BOOLEAN :
        LET r == unmount_virtual_disk(mountDepth, fails)
        IN  /\ mountDepth' = r.depth
            /\ Begin("unmount")
            /\ Finish("unmount", r.res, AfterUnmount(r.res, printFails))
    /\ UNCHANGED <<image, dirExists, src, dst, diskSize, build, pos, wpos, buf,
                   startDepth, startDir, runs, calls>>

\* The source file main is given: absent, or up to two chunks and a byte in
\* two contents per length (SpecCopy runs the copy on every content).
Sources ==
    {NoFile} \cup {MkFile(Alternating(n, b)) :
                      n \in 0..(2 * BufLen + 1), b \in Byte}

\* The program is started again after it exited; the image, the directory
\* and the mounts are as the last run left them.  The source file is the
\* operator's and may be another one by then.
NewRun ==
    /\ pc = "exit"
    /\ runs < MaxRuns
    /\ pc' = "allocate"
    /\ result' = "running"
    /\ log' = <<>>
    /\ outcome' = NoOutcome
    /\ reported' = {}
    /\ startDepth' = mountDepth
    /\ runs' = runs + 1
    /\ src' \in Sources
    /\ startDir' = dirExists
    /\ UNCHANGED <<image, dirExists, mountDepth, dst, diskSize, build, pos, wpos,
                   buf, calls>>

\* SpecAlloc: one direct call create_fully_allocated_file(path, size) by a
\* process that makes such calls one after the other.  A call that aborted
\* the process is its last.
AllocCall ==
    /\ pc = "harness"
    /\ Len(calls) < MaxCalls
    /\ \A i \in 1..Len(calls) : calls[i].res # "abort"
    /\ \E size \in 0..MaxSize, fail \in AllocFails :
        LET r == create_fully_allocated_file(image, size, fail, build)
        IN  /\ image' = r.file
            /\ calls' = Append(calls, [size |-> size, res |-> r.res,
                                       before |-> image, after |-> r.file,
                                       closes |-> r.closes])
    /\ UNCHANGED <<pc, result, dirExists, mountDepth, src, dst, diskSize, build, pos,
                   wpos, buf, log, outcome, reported, startDepth, startDir, runs>>

\* --------------------------------------------------------- specifications
\* Before the first run: nothing is mounted, the image has no filesystem.
\* The image path holds no file or a file of any length around the size
\* asked for; the source is absent or holds up to two chunks and a byte, in
\* two contents per length (SpecCopy runs the copy on every content).
Init ==
    /\ pc = "allocate"
    /\ result = "running"
    /\ image \in {NoFile} \cup {MkFile(Ones(n)) : n \in 0..(MaxSize + 1)}
    /\ dirExists \in BOOLEAN
    /\ mountDepth = 0
    /\ src \in Sources
    /\ dst = NoFile
    /\ diskSize \in 1..MaxSize
    /\ build \in Builds
    /\ pos = 0
    /\ wpos = 0
    /\ buf = <<>>
    /\ log = <<>>
    /\ outcome = NoOutcome
    /\ reported = {}
    /\ startDepth = 0
    /\ startDir = dirExists
    /\ runs = 1
    /\ calls = <<>>

Next ==
    \/ Allocate
    \/ Format
    \/ Mount
    \/ CopyOpen
    \/ CopyRead
    \/ CopyWrite
    \/ Unmount
    \/ NewRun

Spec == Init /\ [][Next]_vars

\* main under the assumption that every OS call and the subprocess return:
\* the single thread takes its next step whenever it has one.
\* Which steps are taken depends on the lengths of the files and not on
\* their bytes, so the source here is one file of each length.
InitLive ==
    /\ pc = "allocate"
    /\ result = "running"
    /\ image \in {NoFile, MkFile(Ones(MaxSize + 1))}
    /\ dirExists \in BOOLEAN
    /\ mountDepth = 0
    /\ src \in {NoFile} \cup {MkFile(Ones(n)) : n \in 0..(2 * BufLen + 1)}
    /\ dst = NoFile
    /\ diskSize \in 1..MaxSize
    /\ build \in Builds
    /\ pos = 0
    /\ wpos = 0
    /\ buf = <<>>
    /\ log = <<>>
    /\ outcome = NoOutcome
    /\ reported = {}
    /\ startDepth = 0
    /\ startDir = dirExists
    /\ runs = 1
    /\ calls = <<>>

\* The steps of one run of main: nothing in the code starts it again.
NextLive ==
    \/ Allocate
    \/ Format
    \/ Mount
    \/ CopyOpen
    \/ CopyRead
    \/ CopyWrite
    \/ Unmount

SpecLive == InitLive /\ [][NextLive]_vars /\ WF_vars(NextLive)

\* The allocator on its own: any file of up to MaxSize + 1 bytes at the path.
InitAlloc ==
    /\ pc = "harness"
    /\ result = "running"
    /\ image \in FilesUpTo(MaxSize + 1)
    /\ dirExists = FALSE
    /\ mountDepth = 0
    /\ src = NoFile
    /\ dst = NoFile
    /\ diskSize = 1
    /\ build \in Builds
    /\ pos = 0
    /\ wpos = 0
    /\ buf = <<>>
    /\ log = <<>>
    /\ outcome = NoOutcome
    /\ reported = {}
    /\ startDepth = 0
    /\ startDir = dirExists
    /\ runs = 1
    /\ calls = <<>>

NextAlloc == AllocCall

SpecAlloc == InitAlloc /\ [][NextAlloc]_vars

\* copy_file_to_mount on its own, on a mounted filesystem in which file.txt
\* is absent or already holds any bytes: the call starts at the function's
\* first line and ends when it returns.
InitCopy ==
    /\ pc = "transfer"
    /\ result = "running"
    /\ image = MkFile(Zeros(1))
    /\ dirExists = TRUE
    /\ mountDepth = 1
    /\ src \in FilesUpTo(2 * BufLen + 1)
    /\ dst \in FilesUpTo(BufLen + 1)
    /\ diskSize = 1
    /\ build \in Builds
    /\ pos = 0
    /\ wpos = 0
    /\ buf = <<>>
    /\ log = <<>>
    /\ outcome = NoOutcome
    /\ reported = {}
    /\ startDepth = 0
    /\ startDir = dirExists
    /\ runs = 1
    /\ calls = <<>>

NextCopy ==
    \/ CopyOpen
    \/ CopyRead
    \/ CopyWrite

SpecCopy == InitCopy /\ [][NextCopy]_vars

\* One direct call mount_virtual_disk() of a session that calls the mount
\* controller in any order.
MountCall ==
    /\ pc = "harness"
    /\ Len(calls) < MaxMountCalls
    /\ \E mkdirFails \in BOOLEAN, attachFails \in BOOLEAN :
        LET r == mount_virtual_disk(dirExists, mountDepth, mkdirFails, attachFails)
        IN  /\ dirExists' = r.exists
            /\ mountDepth' = r.depth
            /\ calls' = Append(calls,
                  [op |-> "mount", res |-> r.res,
                   before |-> [exists |-> dirExists, depth |-> mountDepth],
                   after |-> [exists |-> r.exists, depth |-> r.depth],
                   mkdir |-> r.mkdir, attach |-> r.attach])
    /\ UNCHANGED <<pc, result, image, src, dst, diskSize, build, pos, wpos, buf, log,
                   outcome, reported, startDepth, startDir, runs>>

\* One direct call unmount_virtual_disk() of that session.
UnmountCall ==
    /\ pc = "harness"
    /\ Len(calls) < MaxMountCalls
    /\ \E fails \in BOOLEAN :
        LET r == unmount_virtual_disk(mountDepth, fails)
        IN  /\ mountDepth' = r.depth
            /\ calls' = Append(calls,
                  [op |-> "unmount", res |-> r.res,
                   before |-> [exists |-> dirExists, depth |-> mountDepth],
                   after |-> [exists |-> dirExists, depth |-> r.depth],
                   mkdir |-> FALSE, attach |-> FALSE])
    /\ UNCHANGED <<pc, result, image, dirExists, src, dst, diskSize, build, pos, wpos,
                   buf, log, outcome, reported, startDepth, startDir, runs>>

\* The mount controller on its own: a formatted image, nothing mounted, the
\* mount directory present or absent.
InitMount ==
    /\ pc = "harness"
    /\ result = "running"
    /\ image = MkFile(Zeros(1))
    /\ dirExists \in BOOLEAN
    /\ mountDepth = 0
    /\ src = NoFile
    /\ dst = NoFile
    /\ diskSize = 1
    /\ build \in Builds
    /\ pos = 0
    /\ wpos = 0
    /\ buf = <<>>
    /\ log = <<>>
    /\ outcome = NoOutcome
    /\ reported = {}
    /\ startDepth = 0
    /\ startDir = dirExists
    /\ runs = 1
    /\ calls = <<>>

NextMount ==
    \/ MountCall
    \/ UnmountCall

SpecMount == InitMount /\ [][NextMount]_vars

TypeOK ==
    /\ pc \in Steps \cup {"copy_read", "copy_write", "exit", "harness"}
    /\ result \in {"running", "Ok", "Err", "Panic", "Abort"}
    /\ build \in Builds
    /\ mountDepth \in 0..Max(MaxRuns, MaxMountCalls)
    /\ runs \in 1..MaxRuns
    /\ pos \in 0..Len(src.data)
    /\ wpos \in 0..Len(src.data)
    /\ reported \subseteq Steps
    /\ (pc \notin {"copy_read", "copy_write"} => NoCopy)

\* ----------------------------------------------------------------- claims
IsPrefix(s, t) == Len(s) <= Len(t) /\ \A i \in 1..Len(s) : s[i] = t[i]

\* A step that was started and has not returned.
InProgress(s) == Attempted(s) /\ outcome[s] = "none"

\* C1: the steps attempted in a run are an initial part of allocate, format,
\* mount, transfer, unmount, in that order; a step is started only when every
\* earlier step has returned, so at most one step is in progress, and a step
\* has a result only if it was attempted.
C1_StrictOrder ==
    /\ IsPrefix(log, StepOrder)
    /\ \A i \in 1..(Len(log) - 1) : outcome[log[i]] # "none"
    /\ \A s \in Steps : outcome[s] # "none" => Attempted(s)
    /\ Cardinality({s \in Steps : InProgress(s)}) <= 1
    /\ (pc \in {"copy_read", "copy_write"} <=> InProgress("transfer"))

\* C1 witness: a run that attempted all five steps and returned.
C1_Witness ==
    log = StepOrder /\ result = "Ok" /\ \A s \in Steps : outcome[s] # "none"

\* C2: a failed allocate or a failed format ends the run at once, with main
\* returning the error or, for an allocate that aborted, with the process
\* killed, and no later step attempted; format is attempted only after a
\* successful allocate and mount only after a successful format.
C2_AllocFormatFatal ==
    /\ Failed("allocate") =>
          /\ log = <<"allocate">>
          /\ pc = "exit"
          /\ result = (IF outcome["allocate"] = "abort" THEN "Abort" ELSE "Err")
    /\ Failed("format") =>
          log = <<"allocate", "format">> /\ pc = "exit" /\ result = "Err"
    /\ Attempted("format") => outcome["allocate"] = "ok"
    /\ Attempted("mount") => outcome["format"] = "ok"

\* C2 witness: the formatter failed after a successful allocate.
C2_Witness ==
    outcome["allocate"] = "ok" /\ Failed("format") /\ pc = "exit"

\* C3: when the mount step fails, in the directory creation or in the
\* attach, the run ends there, with main returning the error or panicking
\* while it prints it, and neither transfer nor unmount is attempted.
C3_MountFatal ==
    Failed("mount") =>
        /\ outcome["mount"] \in {"mkdir_err", "attach_err"}
        /\ ~Attempted("transfer")
        /\ ~Attempted("unmount")
        /\ pc = "exit"
        /\ result \in {"Err", "Panic"}
        /\ (result = "Err" <=> "mount" \in reported)

\* C3 witness: the attach failed after the directory was there.
C3_Witness ==
    outcome["mount"] = "attach_err" /\ dirExists /\ pc = "exit"

\* C4: a run whose mount succeeded does not end without an unmount attempt;
\* a failed transfer is reported by main, which goes on to the unmount; a
\* missing source makes the transfer fail as NotFound.
C4_UnmountAfterMount ==
    /\ (outcome["mount"] = "ok" /\ result # "running") => Attempted("unmount")
    /\ Failed("transfer") =>
          /\ "transfer" \in reported
          /\ pc \in {"unmount", "exit"}
          /\ (pc = "exit" => Attempted("unmount"))
    /\ (outcome["transfer"] # "none" /\ ~src.exists) =>
          outcome["transfer"] = "NotFound"

\* C5: when main has returned, the exit status is non-zero exactly when
\* allocate, format or mount failed; with those three successful it is zero
\* whatever transfer and unmount returned.
C5_ExitStatus ==
    result # "running" =>
        /\ (ExitStatus # 0) <=>
              (Failed("allocate") \/ Failed("format") \/ Failed("mount"))
        /\ (\A s \in {"allocate", "format", "mount"} : outcome[s] = "ok") =>
              ExitStatus = 0

\* C6: in a run that started unmounted, every step that attempts a mount
\* starts unmounted and every step that attempts an unmount starts mounted;
\* the mount state changes only from unmounted to mounted by the run's one
\* successful mount and from mounted to unmounted by its one successful
\* unmount.
C6_MountDiscipline ==
    [][(startDepth = 0 /\ runs' = runs) =>
        /\ (log' = Append(log, "mount") => ~isMounted)
        /\ (log' = Append(log, "unmount") => isMounted)
        /\ (mountDepth' # mountDepth =>
              \/ /\ mountDepth = 0
                 /\ mountDepth' = 1
                 /\ ~Attempted("mount")
                 /\ log' = Append(log, "mount")
                 /\ outcome'["mount"] = "ok"
              \/ /\ mountDepth = 1
                 /\ mountDepth' = 0
                 /\ ~Attempted("unmount")
                 /\ log' = Append(log, "unmount")
                 /\ outcome'["unmount"] = "ok")]_vars

\* C6 witness: a run that started unmounted mounted and unmounted again.
C6_Witness ==
    /\ startDepth = 0
    /\ outcome["mount"] = "ok"
    /\ outcome["unmount"] = "ok"
    /\ ~isMounted

\* C7: every successful call of the allocator with size > 0 leaves a file
\* of exactly size bytes whose last byte is zero, whatever was at the path.
C7_AllocLength ==
    \A i \in 1..Len(calls) :
        (calls[i].size > 0 /\ calls[i].res = "ok") =>
            /\ calls[i].after.exists
            /\ Len(calls[i].after.data) = calls[i].size
            /\ calls[i].after.data[calls[i].size] = 0

\* C7 witness: a successful call on a longer file that had a non-zero byte
\* at the new last offset.
C7_Witness ==
    \E i \in 1..Len(calls) :
        /\ calls[i].size > 0
        /\ calls[i].res = "ok"
        /\ calls[i].before.exists
        /\ Len(calls[i].before.data) > calls[i].size
        /\ calls[i].before.data[calls[i].size] = 1

\* C8: after a successful call with size > 0, a second call with the same
\* size leaves the file as the first call left it: same length, same bytes.
C8_AllocIdempotent ==
    \A i \in 1..(Len(calls) - 1) :
        (/\ calls[i].size > 0
         /\ calls[i].res = "ok"
         /\ calls[i + 1].size = calls[i].size) =>
            /\ calls[i + 1].before = calls[i].after
            /\ calls[i + 1].after = calls[i].after
            /\ Len(calls[i + 1].after.data) = calls[i].size

\* C8 witness: two successful calls in succession with the same size, the
\* first of which changed the file.
C8_Witness ==
    \E i \in 1..(Len(calls) - 1) :
        /\ calls[i].size > 0
        /\ calls[i].res = "ok"
        /\ calls[i + 1].size = calls[i].size
        /\ calls[i + 1].res = "ok"
        /\ calls[i].before.exists
        /\ calls[i].before # calls[i].after

\* C9: a call with size 0 returns an error and, apart from creating the file
\* when it was absent, leaves the path as it was: an existing file keeps its
\* length and contents.
C9_ZeroSizeRejectedUntouched ==
    \A i \in 1..Len(calls) :
        calls[i].size = 0 =>
            /\ calls[i].res # "ok"
            /\ (calls[i].before.exists => calls[i].after = calls[i].before)
            /\ (~calls[i].before.exists =>
                    calls[i].after \in {NoFile, MkFile(<<>>)})

\* C10: when mount and transfer of a run succeeded, the destination holds
\* exactly the source's bytes; inside the copy loop everything read so far
\* has been written when the next read is issued, and the chunk waiting
\* to be written is the part of the source just read.
C10_TransferRoundTrip ==
    /\ (outcome["mount"] = "ok" /\ outcome["transfer"] = "ok") =>
          dst.exists /\ dst.data = src.data
    /\ pc = "copy_read" =>
          /\ wpos = pos
          /\ dst.exists
          /\ Len(dst.data) >= pos
          /\ SubSeq(dst.data, 1, pos) = SubSeq(src.data, 1, pos)
    /\ pc = "copy_write" =>
          /\ buf # <<>>
          /\ wpos + Len(buf) = pos
          /\ buf = SubSeq(src.data, wpos + 1, pos)

\* C11: a successful copy leaves the destination byte-identical to the
\* source also when the destination existed before, with none of its old
\* bytes remaining.
C11_DestinationTruncated ==
    outcome["transfer"] = "ok" => dst.exists /\ dst.data = src.data
\* Number of attempts of step s in this run.
Count(s) == Cardinality({i \in 1..Len(log) : log[i] = s})

\* The fatal steps that come before step s.
FatalBefore(s) ==
    IF s = "allocate" THEN {}
    ELSE IF s = "format" THEN {"allocate"}
    ELSE IF s = "mount" THEN {"allocate", "format"}
    ELSE {"allocate", "format", "mount"}

\* C12: no step is attempted more than once in a run; when main has
\* returned, every step whose earlier fatal steps all succeeded was attempted
\* exactly once; and a step that has failed is not attempted again in that
\* run, the unmount included.
C12_NoRetries ==
    /\ [](/\ \A s \in Steps : Count(s) <= 1
          /\ pc = "exit" =>
                \A s \in Steps :
                    (\A f \in FatalBefore(s) : outcome[f] = "ok") => Count(s) = 1)
    /\ [][\A s \in Steps :
            (Failed(s) /\ runs' = runs) => log' # Append(log, s)]_vars

\* C13: nothing is rolled back.  The image file, once it exists, exists in
\* every later state, after a failed format too; the mount directory, once it
\* exists, exists in every later state, so it is there after a failed attach
\* and after the unmount.
C13_NoRollback ==
    /\ [](/\ outcome["allocate"] \notin {"none", "open_err"} => image.exists
          /\ Failed("format") => image.exists
          /\ outcome["mount"] \in {"ok", "attach_err"} => dirExists
          /\ outcome["unmount"] # "none" => dirExists)
    /\ [][/\ image.exists => image'.exists
          /\ dirExists => dirExists']_vars

\* C13 witness: a later run that started without the mount directory; its
\* mount step created the directory and then failed in the attach; image and
\* directory are both still there when main has returned.
C13_Witness ==
    /\ runs = MaxRuns
    /\ ~startDir
    /\ pc = "exit"
    /\ outcome["mount"] = "attach_err"
    /\ dirExists
    /\ image.exists
\* C14: a mount call made while the session's earlier mount is still
\* attached returns an error and leaves the mount state as it was.
C14_AlreadyMountedRejected ==
    \A i \in 1..Len(calls) :
        (calls[i].op = "mount" /\ calls[i].before.depth > 0) =>
            /\ calls[i].res # "ok"
            /\ calls[i].after.depth = calls[i].before.depth

\* C16: the mount step makes sure the directory exists before it attaches.
\* A directory that exists is not created again and causes no error; an absent
\* one is created before the attach; when the creation fails no attach is made
\* and the call returns an error with nothing mounted by it.
C16_MountEnsuresDirectory ==
    \A i \in 1..Len(calls) :
        calls[i].op = "mount" =>
            /\ calls[i].before.exists =>
                  /\ ~calls[i].mkdir
                  /\ calls[i].res # "mkdir_err"
                  /\ calls[i].attach
            /\ (~calls[i].before.exists /\ calls[i].res # "mkdir_err") =>
                  /\ calls[i].mkdir
                  /\ calls[i].attach
            /\ calls[i].attach => calls[i].after.exists
            /\ calls[i].res = "mkdir_err" =>
                  /\ ~calls[i].before.exists
                  /\ ~calls[i].attach
                  /\ ~calls[i].after.exists
                  /\ calls[i].after.depth = calls[i].before.depth

\* C16 witness: the first call found no directory, failed to create it and
\* did not attach; the second created it and attached; the third found it.
C16_Witness ==
    /\ Len(calls) >= 3
    /\ \A i \in 1..3 : calls[i].op = "mount"
    /\ calls[1].res = "mkdir_err" /\ ~calls[1].attach
    /\ calls[2].mkdir /\ calls[2].attach /\ calls[2].after.exists
    /\ calls[3].before.exists /\ ~calls[3].mkdir /\ calls[3].attach
\* C15: no step that invokes the formatter starts while the image is
\* mounted, in any run of a sequence of runs.
C15_FormatNeverOnMounted ==
    [][log' = Append(log, "format") => ~isMounted]_vars

\* C17: when a run that started unmounted has returned, the directory is
\* mounted exactly when the mount succeeded and the unmount attempt failed;
\* after a fatal abort or a successful unmount it is unmounted.
C17_MountedAtExit ==
    (startDepth = 0 /\ pc = "exit") =>
        /\ isMounted <=> (outcome["mount"] = "ok" /\ Failed("unmount"))
        /\ result = "Err" => ~isMounted
        /\ outcome["unmount"] = "ok" => ~isMounted

\* The run has ended in a fatal abort, after allocate, format or mount
\* failed, or main has returned Ok after the unmount attempt.
Terminated ==
    /\ pc = "exit"
    /\ \/ /\ result \in {"Err", "Abort", "Panic"}
          /\ \E s \in {"allocate", "format", "mount"} : Failed(s)
          /\ ~Attempted("unmount")
       \/ /\ result = "Ok"
          /\ outcome["unmount"] # "none"

\* C18: every run that is under way ends, in a fatal abort or after the
\* unmount attempt, and every copy loop that was entered is left with a
\* result of the transfer.
C18_Termination ==
    /\ (result = "running") ~> Terminated
    /\ (pc \in {"copy_read", "copy_write"}) ~> (outcome["transfer"] # "none")

\* C19: on every path of the allocator on which the file was opened, the
\* function returns and the descriptor has been closed exactly once by then.
C19_ClosedExactlyOnce ==
    \A i \in 1..Len(calls) :
        calls[i].res # "open_err" =>
            calls[i].closes = 1 /\ calls[i].res # "abort"
====
